---- MODULE Spec2Model ----
(***************************************************************************)
(* Authenticated codespaces proxy: the router registered by                *)
(* RegisterCodespacesRoutes, extractToken, ensureScopes, the six handlers  *)
(* and the CodespacesClient they call.                                     *)
(*                                                                         *)
(* Strings are sequences of atoms.  An atom is either one of the single    *)
(* characters the code inspects ("/", " ", ",") or an opaque run of other  *)
(* characters ("n", "start", "Bearer", ...), so HasSuffix, TrimPrefix,     *)
(* Fields, Split and TrimSpace are computed position by position.          *)
(***************************************************************************)
EXTENDS Integers, Sequences, FiniteSets, TLC

\* ---------------------------------------------------------------- bounds
NReq == 2
MaxRest == 5
MaxHdr == 5
MaxXHdr == 2
MaxScope == 2
MaxRaw == 3

Reqs == 1..NReq

SeqsUpTo(S, n) == UNION {[1..k -> S] : k \in 0..n}

\* ------------------------------------------------------- package strings
HasPrefix(s, p) ==
    /\ Len(s) >= Len(p)
    /\ SubSeq(s, 1, Len(p)) = p

HasSuffix(s, suf) ==
    /\ Len(s) >= Len(suf)
    /\ SubSeq(s, Len(s) - Len(suf) + 1, Len(s)) = suf

TrimPrefix(s, p) == IF HasPrefix(s, p) THEN SubSeq(s, Len(p) + 1, Len(s)) ELSE s

TrimSuffix(s, suf) == IF HasSuffix(s, suf) THEN SubSeq(s, 1, Len(s) - Len(suf)) ELSE s

IsSpace(c) == c = " "

RECURSIVE FieldsAcc(_, _, _)
FieldsAcc(s, cur, acc) ==
    IF s = <<>>
    THEN IF cur = <<>> THEN acc ELSE Append(acc, cur)
    ELSE IF IsSpace(Head(s))
         THEN FieldsAcc(Tail(s), <<>>, IF cur = <<>> THEN acc ELSE Append(acc, cur))
         ELSE FieldsAcc(Tail(s), Append(cur, Head(s)), acc)

\* strings.Fields: the maximal runs of non-space characters
Fields(s) == FieldsAcc(s, <<>>, <<>>)

RECURSIVE TrimLeft(_)
TrimLeft(s) == IF s # <<>> /\ IsSpace(Head(s)) THEN TrimLeft(Tail(s)) ELSE s

RECURSIVE TrimRight(_)
TrimRight(s) ==
    IF s # <<>> /\ IsSpace(s[Len(s)]) THEN TrimRight(SubSeq(s, 1, Len(s) - 1)) ELSE s

TrimSpace(s) == TrimRight(TrimLeft(s))

RECURSIVE SplitAcc(_, _, _)
SplitAcc(s, cur, acc) ==
    IF s = <<>>
    THEN Append(acc, cur)
    ELSE IF Head(s) = ","
         THEN SplitAcc(Tail(s), <<>>, Append(acc, cur))
         ELSE SplitAcc(Tail(s), Append(cur, Head(s)), acc)

\* bytes.Split(raw, ","): every piece, the empty ones included
Split(s) == SplitAcc(s, <<>>, <<>>)

LowerAtom(c) ==
    CASE c = "CodeSpaces" -> "codespaces"
      [] c = "CODESPACES" -> "codespaces"
      [] c = "Repo" -> "repo"
      [] OTHER -> c

ToLower(s) == [k \in 1..Len(s) |-> LowerAtom(s[k])]

\* url.PathEscape: "/" is escaped, unreserved runs are kept
EscapeAtom(c) == IF c = "/" THEN "%2F" ELSE c

PathEscape(s) == [k \in 1..Len(s) |-> EscapeAtom(s[k])]

\* ------------------------------------------------------------ net/http
StatusBadRequest == 400
StatusUnauthorized == 401
StatusForbidden == 403
StatusMethodNotAllowed == 405
StatusInternalServerError == 500
StatusBadGateway == 502

NoResp == [written |-> FALSE, status |-> 0, ctype |-> "", body |-> <<>>]

\* http.Error: plain-text content type, the status, the message and a newline
HttpError(msg, code) ==
    [written |-> TRUE, status |-> code,
     ctype |-> "text/plain; charset=utf-8", body |-> <<msg, "\n">>]

\* ------------------------------------------------------------- router
CollectionPath == <<"/api/codespaces">>
CollectionPrefix == <<"/api/codespaces", "/">>

Methods == {"GET", "POST", "DELETE", "PUT"}
Actions == {"list", "create", "get", "delete", "start", "stop"}

NoDispatch == [action |-> "none", name |-> <<>>]

Dispatched(a, n) == [kind |-> "handler", action |-> a, name |-> n,
                     status |-> 0, msg |-> ""]
Rejected(code, m) == [kind |-> "error", action |-> "none", name |-> <<>>,
                      status |-> code, msg |-> m]

RouteCollection(method) ==
    CASE method = "GET" -> Dispatched("list", <<>>)
      [] method = "POST" -> Dispatched("create", <<>>)
      [] OTHER -> Rejected(StatusMethodNotAllowed, "method not allowed")

\* RouteItem passing the whole rest, suffix included, to start and stop
RouteItemUntrimmed(method, path) ==
    LET rest == TrimPrefix(path, CollectionPrefix) IN
    IF rest = <<>>
    THEN Rejected(StatusBadRequest, "missing codespace name")
    ELSE IF HasSuffix(rest, <<"/", "start">>) /\ method = "POST"
    THEN Dispatched("start", rest)
    ELSE IF HasSuffix(rest, <<"/", "stop">>) /\ method = "POST"
    THEN Dispatched("stop", rest)
    ELSE CASE method = "GET" -> Dispatched("get", rest)
           [] method = "DELETE" -> Dispatched("delete", rest)
           [] OTHER -> Rejected(StatusMethodNotAllowed, "method not allowed")

RouteItem(method, path) ==
    LET rest == TrimPrefix(path, CollectionPrefix) IN
    IF rest = <<>>
    THEN Rejected(StatusBadRequest, "missing codespace name")
    ELSE IF HasSuffix(rest, <<"/", "start">>) /\ method = "POST"
    THEN Dispatched("start", TrimSuffix(rest, <<"/", "start">>))
    ELSE IF HasSuffix(rest, <<"/", "stop">>) /\ method = "POST"
    THEN Dispatched("stop", TrimSuffix(rest, <<"/", "stop">>))
    ELSE CASE method = "GET" -> Dispatched("get", rest)
           [] method = "DELETE" -> Dispatched("delete", rest)
           [] OTHER -> Rejected(StatusMethodNotAllowed, "method not allowed")

\* the two patterns of the mux: the exact collection path and its subtree
RegisterCodespacesRoutes(method, path) ==
    IF path = CollectionPath THEN RouteCollection(method) ELSE RouteItem(method, path)

\* ------------------------------------------------------- extractToken
TokenOf(t) == [panic |-> FALSE, token |-> t]
TokenPanic == [panic |-> TRUE, token |-> <<>>]

\* extractToken returning the scheme of a two-part value
extractTokenFirstPart(authorization, xGithubToken) ==
    LET auth == IF authorization = <<>> THEN xGithubToken ELSE authorization
        parts == Fields(auth)
    IN  IF auth = <<>> THEN TokenOf(<<>>)
        ELSE IF Len(parts) >= 1 THEN TokenOf(parts[1])
        ELSE TokenPanic

extractToken(authorization, xGithubToken) ==
    LET auth == IF authorization = <<>> THEN xGithubToken ELSE authorization
        parts == Fields(auth)
    IN  IF auth = <<>> THEN TokenOf(<<>>)
        ELSE IF Len(parts) = 1 THEN TokenOf(parts[1])
        ELSE IF Len(parts) >= 2 THEN TokenOf(parts[2])
        ELSE TokenPanic  \* parts[1] on an empty slice: index out of range

\* ---------------------------------------------------- CodespacesClient
\* The answer of the upstream to one request, as HTTPClient.Do and the read
\* of the body see it: err is "none", "do" (Do failed), "canceled" (Do failed
\* because the context was canceled) or "read" (the body read failed).
Outcome(e, st, ct, sc, b) ==
    [err |-> e, status |-> st, ctype |-> ct, scopes |-> sc, body |-> b]

NoOutcome == Outcome("pending", 0, "", <<>>, <<>>)

\* doRaw dropping the error of the body read
doRawIgnoreReadErr(o) ==
    IF o.err \in {"do", "canceled"} THEN Outcome(o.err, 0, "", <<>>, <<>>)
    ELSE Outcome("none", o.status, o.ctype, o.scopes, IF o.err = "read" THEN <<>> ELSE o.body)

doRaw(o) ==
    IF o.err \in {"do", "canceled"} THEN Outcome(o.err, 0, "", <<>>, <<>>)
    ELSE IF o.err = "read" THEN Outcome(o.err, o.status, o.ctype, o.scopes, <<>>)
    ELSE Outcome("none", o.status, o.ctype, o.scopes, o.body)

\* encoding/json on the request bodies of the model
JsonNil == "nil"
JsonObject == "object"

Unmarshal(bs) ==
    CASE bs = <<"{}">> -> [err |-> FALSE, val |-> JsonObject]
      [] bs = <<"null">> -> [err |-> FALSE, val |-> JsonNil]
      [] OTHER -> [err |-> TRUE, val |-> JsonNil]

Marshal(v) == IF v = JsonObject THEN <<"{}">> ELSE <<"null">>

\* newRequest attaching the token under the Bearer scheme
newRequestBearer(op, method, path, token, body) ==
    [op |-> op, method |-> method, path |-> path,
     withContext |-> TRUE,
     accept |-> "application/vnd.github+json;apiVersion=2022-11-28",
     userAgent |-> "github-mcp-server/codespaces-client",
     ctype |-> IF body # JsonNil THEN "application/json" ELSE "",
     auth |-> IF token # <<>> THEN <<"Bearer", " ">> \o token ELSE <<>>,
     body |-> IF body # JsonNil THEN Marshal(body) ELSE <<>>]

newRequest(op, method, path, token, body) ==
    [op |-> op, method |-> method, path |-> path,
     withContext |-> TRUE,
     accept |-> "application/vnd.github+json;apiVersion=2022-11-28",
     userAgent |-> "github-mcp-server/codespaces-client",
     ctype |-> IF body # JsonNil THEN "application/json" ELSE "",
     auth |-> IF token # <<>> THEN <<"token", " ">> \o token ELSE <<>>,
     body |-> IF body # JsonNil THEN Marshal(body) ELSE <<>>]

GetTokenScopesRequest(token) == newRequest("GetTokenScopes", "GET", <<"/">>, token, JsonNil)

\* the results of GetTokenScopes: the error, whether the slice is nil, the slice
ScopesOf(e, n, sc) == [err |-> e, isNil |-> n, scopes |-> sc]

\* GetTokenScopes returning the nil slice when the header is absent
GetTokenScopesNilWhenAbsent(o) ==
    LET r == doRaw(o)
        pieces == Split(r.scopes)
    IN  IF r.err # "none" THEN ScopesOf(TRUE, TRUE, <<>>)
        ELSE IF r.status >= 400 THEN ScopesOf(TRUE, TRUE, <<>>)
        ELSE IF r.scopes = <<>> THEN ScopesOf(FALSE, TRUE, <<>>)
        ELSE ScopesOf(FALSE, FALSE, [k \in 1..Len(pieces) |-> TrimSpace(pieces[k])])

\* GetTokenScopes without the status test
GetTokenScopesAnyStatus(o) ==
    LET r == doRaw(o)
        pieces == Split(r.scopes)
    IN  IF r.err # "none" THEN ScopesOf(TRUE, TRUE, <<>>)
        ELSE IF r.scopes = <<>> THEN ScopesOf(FALSE, FALSE, <<>>)
        ELSE ScopesOf(FALSE, FALSE, [k \in 1..Len(pieces) |-> TrimSpace(pieces[k])])

GetTokenScopes(o) ==
    LET r == doRaw(o)
        pieces == Split(r.scopes)
    IN  IF r.err # "none" THEN ScopesOf(TRUE, TRUE, <<>>)
        ELSE IF r.status >= 400 THEN ScopesOf(TRUE, TRUE, <<>>)
        ELSE IF r.scopes = <<>> THEN ScopesOf(FALSE, FALSE, <<>>)
        ELSE ScopesOf(FALSE, FALSE, [k \in 1..Len(pieces) |-> TrimSpace(pieces[k])])

\* The six client methods declare the results (status, body, header, error),
\* the order in which the handlers receive them; each is modelled as the
\* request it builds, and its answer reaches the handler through doRaw.
UserCodespaces == <<"/user/codespaces">>

ListCodespaces(token) ==
    newRequest("ListCodespaces", "GET", UserCodespaces, token, JsonNil)

GetCodespace(token, name) ==
    newRequest("GetCodespace", "GET",
               UserCodespaces \o <<"/">> \o PathEscape(name), token, JsonNil)

CreateCodespace(token, body) ==
    newRequest("CreateCodespace", "POST", UserCodespaces, token, body)

StartCodespace(token, name) ==
    newRequest("StartCodespace", "POST",
               UserCodespaces \o <<"/">> \o PathEscape(name) \o <<"/", "start">>,
               token, JsonNil)

StopCodespace(token, name) ==
    newRequest("StopCodespace", "POST",
               UserCodespaces \o <<"/">> \o PathEscape(name) \o <<"/", "stop">>,
               token, JsonNil)

DeleteCodespace(token, name) ==
    newRequest("DeleteCodespace", "DELETE",
               UserCodespaces \o <<"/">> \o PathEscape(name), token, JsonNil)

\* the client call each handler makes once its scope check has passed
ActionRequest(action, token, name, body) ==
    CASE action = "list" -> ListCodespaces(token)
      [] action = "get" -> GetCodespace(token, name)
      [] action = "create" -> CreateCodespace(token, body)
      [] action = "start" -> StartCodespace(token, name)
      [] action = "stop" -> StopCodespace(token, name)
      [] action = "delete" -> DeleteCodespace(token, name)

ActionOps == {"ListCodespaces", "GetCodespace", "CreateCodespace",
              "StartCodespace", "StopCodespace", "DeleteCodespace"}

\* ------------------------------------------------------- ensureScopes
RequiredScopes == <<<<"codespaces">>>>

\* ensureScopes comparing the granted scopes as they are spelled
ensureScopesCaseSensitive(o, required) ==
    LET got == GetTokenScopes(o)
        have == {TrimSpace(got.scopes[k]) : k \in 1..Len(got.scopes)}
    IN  IF got.err THEN [kind |-> "error", required |-> <<>>, granted |-> <<>>]
        ELSE IF \E k \in 1..Len(required) : ToLower(required[k]) \notin have
        THEN [kind |-> "insufficient", required |-> required, granted |-> got.scopes]
        ELSE [kind |-> "ok", required |-> <<>>, granted |-> <<>>]

\* ensureScopes without the comparison loop
ensureScopesFetchOnly(o, required) ==
    LET got == GetTokenScopes(o)
    IN  IF got.err THEN [kind |-> "error", required |-> <<>>, granted |-> <<>>]
        ELSE [kind |-> "ok", required |-> <<>>, granted |-> <<>>]

ensureScopes(o, required) ==
    LET got == GetTokenScopes(o)
        have == {ToLower(TrimSpace(got.scopes[k])) : k \in 1..Len(got.scopes)}
    IN  IF got.err THEN [kind |-> "error", required |-> <<>>, granted |-> <<>>]
        ELSE IF \E k \in 1..Len(required) : ToLower(required[k]) \notin have
        THEN [kind |-> "insufficient", required |-> required, granted |-> got.scopes]
        ELSE [kind |-> "ok", required |-> <<>>, granted |-> <<>>]

\* ------------------------------------------------- writeProxyResponse
\* writeProxyResponse without the default content type
writeProxyResponseNoDefault(status, ctype, body) ==
    [written |-> TRUE, status |-> status, ctype |-> ctype, body |-> body]

writeProxyResponse(status, ctype, body) ==
    [written |-> TRUE, status |-> status,
     ctype |-> IF ctype # "" THEN ctype ELSE "application/json",
     body |-> body]

\* ------------------------------------------------------------ handlers
\* handleListCodespaces .. handleDeleteCodespace share one body; they differ
\* in the client call, and handleCreateCodespace reads and parses the inbound
\* body between the scope check and the client call.
Step(p, rs, tk, out) == [pc |-> p, resp |-> rs, token |-> tk, out |-> out]

\* handleEntry without the empty-token test
handleEntryNoTokenTest(r) ==
    LET tk == extractToken(r.authorization, r.xGithubToken) IN
    IF tk.panic THEN Step("panic", NoResp, <<>>, <<>>)
    ELSE Step("scope_wait", NoResp, tk.token, <<GetTokenScopesRequest(tk.token)>>)

\* from the entry of a handler to its first upstream call
handleEntry(r) ==
    LET tk == extractToken(r.authorization, r.xGithubToken) IN
    IF tk.panic THEN Step("panic", NoResp, <<>>, <<>>)
    ELSE IF tk.token = <<>>
    THEN Step("done", HttpError("missing Authorization token", StatusUnauthorized),
              <<>>, <<>>)
    ELSE Step("scope_wait", NoResp, tk.token, <<GetTokenScopesRequest(tk.token)>>)

\* handleScopes fetching the scopes again when the fetch failed
handleScopesRetry(action, name, r, token, o) ==
    LET sc == ensureScopes(o, RequiredScopes)
        parsed == Unmarshal(r.body)
        body == IF action = "create" /\ Len(r.body) > 0 THEN parsed.val ELSE JsonNil
    IN  IF sc.kind = "insufficient"
        THEN Step("done", HttpError("insufficient token scopes: requires codespaces",
                                    StatusForbidden), token, <<>>)
        ELSE IF sc.kind = "error"
        THEN Step("scope_wait", NoResp, token, <<GetTokenScopesRequest(token)>>)
        ELSE IF action = "create" /\ r.bodyErr
        THEN Step("done", HttpError("invalid request body", StatusBadRequest),
                  token, <<>>)
        ELSE IF action = "create" /\ Len(r.body) > 0 /\ parsed.err
        THEN Step("done", HttpError("invalid json body", StatusBadRequest),
                  token, <<>>)
        ELSE Step("action_wait", NoResp, token,
                  <<ActionRequest(action, token, name, body)>>)

\* handleScopes without the type assertion on InsufficientScopeError
handleScopesNoAssertion(action, name, r, token, o) ==
    LET sc == ensureScopes(o, RequiredScopes)
        parsed == Unmarshal(r.body)
        body == IF action = "create" /\ Len(r.body) > 0 THEN parsed.val ELSE JsonNil
    IN  IF sc.kind \in {"insufficient", "error"}
        THEN Step("done", HttpError("failed to validate token scopes",
                                    StatusInternalServerError), token, <<>>)
        ELSE IF action = "create" /\ r.bodyErr
        THEN Step("done", HttpError("invalid request body", StatusBadRequest),
                  token, <<>>)
        ELSE IF action = "create" /\ Len(r.body) > 0 /\ parsed.err
        THEN Step("done", HttpError("invalid json body", StatusBadRequest),
                  token, <<>>)
        ELSE Step("action_wait", NoResp, token,
                  <<ActionRequest(action, token, name, body)>>)

\* from the return of ensureScopes to the client call of the action
handleScopes(action, name, r, token, o) ==
    LET sc == ensureScopes(o, RequiredScopes)
        parsed == Unmarshal(r.body)
        body == IF action = "create" /\ Len(r.body) > 0 THEN parsed.val ELSE JsonNil
    IN  IF sc.kind = "insufficient"
        THEN Step("done", HttpError("insufficient token scopes: requires codespaces",
                                    StatusForbidden), token, <<>>)
        ELSE IF sc.kind = "error"
        THEN Step("done", HttpError("failed to validate token scopes",
                                    StatusInternalServerError), token, <<>>)
        ELSE IF action = "create" /\ r.bodyErr
        THEN Step("done", HttpError("invalid request body", StatusBadRequest),
                  token, <<>>)
        ELSE IF action = "create" /\ Len(r.body) > 0 /\ parsed.err
        THEN Step("done", HttpError("invalid json body", StatusBadRequest),
                  token, <<>>)
        ELSE Step("action_wait", NoResp, token,
                  <<ActionRequest(action, token, name, body)>>)

\* handleAction putting the error of the client call into the message
handleActionLeaky(o) ==
    LET r == doRaw(o) IN
    IF r.err # "none"
    THEN HttpError(r.err, StatusBadGateway)
    ELSE writeProxyResponse(r.status, r.ctype, r.body)

\* from the return of the client call to the end of the handler
handleAction(o) ==
    LET r == doRaw(o) IN
    IF r.err # "none"
    THEN HttpError("failed to call GitHub", StatusBadGateway)
    ELSE writeProxyResponse(r.status, r.ctype, r.body)

\* -------------------------------------------------------------- state
VARIABLES
    pc,        \* per inbound request: idle, recv, scope_wait, action_wait, done, panic
    req,       \* the inbound request
    disp,      \* the handler the router invoked and the name it passed
    token,     \* the handler's token variable
    up,        \* the upstream requests issued for the inbound request, in order
    scopeRes,  \* the upstream's answer to the scope fetch
    actRes,    \* the upstream's answer to the action request
    resp,      \* the response written to the caller
    ctx,       \* r.Context() of the inbound request: live or canceled
    gate,      \* one call of ensureScopes, for the specification of the scope gate
    tool       \* one call of a tool handler, for the specification of the tools

vars == <<pc, req, disp, token, up, scopeRes, actRes, resp, ctx, gate, tool>>

NoScopes == ScopesOf(FALSE, TRUE, <<>>)
NoResult == [kind |-> "pending", required |-> <<>>, granted |-> <<>>]

Gate(p, tk, rq, out, o, got, res) ==
    [pc |-> p, token |-> tk, required |-> rq, out |-> out, outcome |-> o,
     got |-> got, result |-> res]

NoGate == Gate("none", <<>>, <<>>, <<>>, NoOutcome, NoScopes, NoResult)
NoArgs == [owner |-> "absent", repo |-> "absent", branch |-> "absent",
           machine |-> "absent", name |-> "absent"]

Tool(p, n, a, c, api, res) ==
    [pc |-> p, name |-> n, args |-> a, clients |-> c, api |-> api, result |-> res]

NoTool == Tool("none", "", NoArgs, 0, <<>>, "none")

Inbound(m, p, a, x, be, b) ==
    [method |-> m, path |-> p, authorization |-> a, xGithubToken |-> x,
     bodyErr |-> be, body |-> b]

NoReq == Inbound("", <<>>, <<>>, <<>>, FALSE, <<>>)

\* ------------------------------------------------------------- inputs
Names == {<<>>, <<"n">>, <<"n", "/", "start">>, <<"n", "/", "stop">>,
          <<"/", "start">>, <<"/", "stop">>}

Paths == {CollectionPath} \cup {CollectionPrefix \o n : n \in Names}

HeaderPairs ==
    {<<a, x>> : a \in {<<>>, <<"X">>, <<"Bearer", " ", "X">>, <<" ">>},
                x \in {<<>>, <<"Y">>}}

Bodies == {<<FALSE, <<>>>>, <<FALSE, <<"{}">>>>, <<FALSE, <<"null">>>>,
           <<FALSE, <<"{not json">>>>, <<TRUE, <<>>>>}

Inbounds ==
    {Inbound(m, p, h[1], h[2], b[1], b[2]) :
        m \in Methods, p \in Paths, h \in HeaderPairs, b \in Bodies}

ScopeHeaders == {<<>>, <<"codespaces">>, <<"repo">>,
                 <<"repo", ",", " ", "CodeSpaces", " ">>,
                 <<"repo", ",", "codespaces", "x">>}

ScopeOutcomes ==
    {Outcome(e, 0, "", <<>>, <<>>) : e \in {"do", "canceled"}}
    \cup {Outcome("read", 200, "application/json", <<"codespaces">>, <<>>)}
    \cup {Outcome("none", st, "application/json", sc, <<"{}">>) :
            st \in {200, 304, 401, 500}, sc \in ScopeHeaders}

UpstreamBodies == {<<>>, <<"{\"message\":\"not found\"}">>}

ActionOutcomes ==
    {Outcome(e, 0, "", <<>>, <<>>) : e \in {"do", "canceled"}}
    \cup {Outcome("read", 200, "application/json", <<>>, <<>>)}
    \cup {Outcome("none", st, ct, <<>>, b) :
            st \in {200, 204, 403, 404, 502},
            ct \in {"", "application/json", "text/html"},
            b \in UpstreamBodies}

\* ------------------------------------------------------------ actions
Init ==
    /\ pc = [i \in Reqs |-> "idle"]
    /\ req = [i \in Reqs |-> NoReq]
    /\ disp = [i \in Reqs |-> NoDispatch]
    /\ token = [i \in Reqs |-> <<>>]
    /\ up = [i \in Reqs |-> <<>>]
    /\ scopeRes = [i \in Reqs |-> NoOutcome]
    /\ actRes = [i \in Reqs |-> NoOutcome]
    /\ resp = [i \in Reqs |-> NoResp]
    /\ ctx = [i \in Reqs |-> "live"]
    /\ gate = NoGate
    /\ tool = NoTool

\* an inbound request arrives at the mux
Receive(i, r) ==
    /\ pc[i] = "idle"
    /\ req' = [req EXCEPT ![i] = r]
    /\ pc' = [pc EXCEPT ![i] = "recv"]
    /\ UNCHANGED <<disp, token, up, scopeRes, actRes, resp, ctx, gate, tool>>

\* Serve extracting the token before the method and the path are looked at
ServeAuthFirst(i) ==
    /\ pc[i] = "recv"
    /\ LET rt == RegisterCodespacesRoutes(req[i].method, req[i].path)
           st == handleEntry(req[i])
       IN  IF rt.kind = "error" /\ st.pc # "done"
           THEN /\ resp' = [resp EXCEPT ![i] = HttpError(rt.msg, rt.status)]
                /\ pc' = [pc EXCEPT ![i] = "done"]
                /\ UNCHANGED <<disp, token, up>>
           ELSE /\ disp' = [disp EXCEPT ![i] =
                              IF rt.kind = "error" THEN NoDispatch
                              ELSE [action |-> rt.action, name |-> rt.name]]
                /\ resp' = [resp EXCEPT ![i] = st.resp]
                /\ token' = [token EXCEPT ![i] = st.token]
                /\ up' = [up EXCEPT ![i] = up[i] \o st.out]
                /\ pc' = [pc EXCEPT ![i] = st.pc]
    /\ UNCHANGED <<req, scopeRes, actRes, ctx, gate, tool>>

\* the mux closure runs: it rejects the request, or calls a handler, which
\* runs up to its scope fetch
Serve(i) ==
    /\ pc[i] = "recv"
    /\ LET rt == RegisterCodespacesRoutes(req[i].method, req[i].path)
           st == handleEntry(req[i])
       IN  IF rt.kind = "error"
           THEN /\ resp' = [resp EXCEPT ![i] = HttpError(rt.msg, rt.status)]
                /\ pc' = [pc EXCEPT ![i] = "done"]
                /\ UNCHANGED <<disp, token, up>>
           ELSE /\ disp' = [disp EXCEPT ![i] = [action |-> rt.action, name |-> rt.name]]
                /\ resp' = [resp EXCEPT ![i] = st.resp]
                /\ token' = [token EXCEPT ![i] = st.token]
                /\ up' = [up EXCEPT ![i] = up[i] \o st.out]
                /\ pc' = [pc EXCEPT ![i] = st.pc]
    /\ UNCHANGED <<req, scopeRes, actRes, ctx, gate, tool>>

\* HTTPClient.Do on a request made with the handler's context: once the
\* context is canceled the call returns an error (from Do, or from the read of
\* the body), and it returns the context's error only then.
Aborts(i, rq, o) ==
    /\ (rq.withContext /\ ctx[i] = "canceled") => o.err \in {"canceled", "read"}
    /\ o.err = "canceled" => (rq.withContext /\ ctx[i] = "canceled")

\* the caller's context is canceled while the handler waits for the upstream
Cancel(i) ==
    /\ pc[i] \in {"scope_wait", "action_wait"}
    /\ ctx[i] = "live"
    /\ ctx' = [ctx EXCEPT ![i] = "canceled"]
    /\ UNCHANGED <<pc, req, disp, token, up, scopeRes, actRes, resp, gate, tool>>

\* ScopeReply deciding on the scopes another request has fetched, if any
ScopeReplyCached(i, o) ==
    /\ pc[i] = "scope_wait"
    /\ Aborts(i, up[i][Len(up[i])], o)
    /\ LET known == {j \in Reqs : scopeRes[j].err = "none"}
           used == IF known = {} THEN o ELSE scopeRes[CHOOSE j \in known : TRUE]
           st == handleScopes(disp[i].action, disp[i].name, req[i], token[i], used)
       IN  /\ scopeRes' = [scopeRes EXCEPT ![i] = o]
           /\ resp' = [resp EXCEPT ![i] = st.resp]
           /\ up' = [up EXCEPT ![i] = up[i] \o st.out]
           /\ pc' = [pc EXCEPT ![i] = st.pc]
    /\ UNCHANGED <<req, disp, token, actRes, ctx, gate, tool>>

\* GetTokenScopes returns and the handler runs up to its client call
ScopeReply(i, o) ==
    /\ pc[i] = "scope_wait"
    /\ Aborts(i, up[i][Len(up[i])], o)
    /\ LET st == handleScopes(disp[i].action, disp[i].name, req[i], token[i], o)
       IN  /\ scopeRes' = [scopeRes EXCEPT ![i] = o]
           /\ resp' = [resp EXCEPT ![i] = st.resp]
           /\ up' = [up EXCEPT ![i] = up[i] \o st.out]
           /\ pc' = [pc EXCEPT ![i] = st.pc]
    /\ UNCHANGED <<req, disp, token, actRes, ctx, gate, tool>>

\* the client call returns and the handler writes its response
ActionReply(i, o) ==
    /\ pc[i] = "action_wait"
    /\ Aborts(i, up[i][Len(up[i])], o)
    /\ actRes' = [actRes EXCEPT ![i] = o]
    /\ resp' = [resp EXCEPT ![i] = handleAction(o)]
    /\ pc' = [pc EXCEPT ![i] = "done"]
    /\ UNCHANGED <<req, disp, token, up, scopeRes, ctx, gate, tool>>

Next ==
    \/ \E r \in Inbounds : Receive(1, r)
    \/ Serve(1)
    \/ Cancel(1)
    \/ \E o \in ScopeOutcomes : ScopeReply(1, o)
    \/ \E o \in ActionOutcomes : ActionReply(1, o)

Spec == Init /\ [][Next]_vars

\* A handler that can run does run, and a pending upstream call returns: the
\* upstream answers, the client times out, or the canceled context ends it.
SpecLive ==
    /\ Init /\ [][Next]_vars
    /\ WF_vars(Serve(1))
    /\ WF_vars(\E o \in ScopeOutcomes : ScopeReply(1, o))
    /\ WF_vars(\E o \in ActionOutcomes : ActionReply(1, o))

\* The router on every path below the collection, up to MaxRest atoms.
RestAtoms == {"/", "start", "stop", "n"}

RoutePaths == {CollectionPath} \cup {CollectionPrefix \o r : r \in SeqsUpTo(RestAtoms, MaxRest)}

RouteInbounds ==
    {Inbound(m, p, a, <<>>, FALSE, <<>>) :
        m \in Methods, p \in RoutePaths, a \in {<<>>, <<"X">>}}

Arrived(r) ==
    /\ pc = [i \in Reqs |-> IF i = 1 THEN "recv" ELSE "idle"]
    /\ req = [i \in Reqs |-> IF i = 1 THEN r ELSE NoReq]
    /\ disp = [i \in Reqs |-> NoDispatch]
    /\ token = [i \in Reqs |-> <<>>]
    /\ up = [i \in Reqs |-> <<>>]
    /\ scopeRes = [i \in Reqs |-> NoOutcome]
    /\ actRes = [i \in Reqs |-> NoOutcome]
    /\ resp = [i \in Reqs |-> NoResp]
    /\ ctx = [i \in Reqs |-> "live"]
    /\ gate = NoGate
    /\ tool = NoTool

InitRoute == \E r \in RouteInbounds : Arrived(r)

NextRoute == Serve(1)

SpecRoute == InitRoute /\ [][NextRoute]_vars

\* extractToken on every pair of header values, up to MaxHdr and MaxXHdr atoms.
HdrAtoms == {" ", "X", "Bearer"}
XHdrAtoms == {" ", "Y"}

TokenInbounds ==
    {Inbound("GET", CollectionPath, a, x, FALSE, <<>>) :
        a \in SeqsUpTo(HdrAtoms, MaxHdr), x \in SeqsUpTo(XHdrAtoms, MaxXHdr)}

InitToken == \E r \in TokenInbounds : Arrived(r)

NextToken == Serve(1)

SpecToken == InitToken /\ [][NextToken]_vars

\* ensureScopes and GetTokenScopes on every required list and every scopes
\* header, up to MaxScope atoms per required scope and MaxRaw atoms per header.
ScopeAtoms == {" ", "codespaces", "CodeSpaces", "repo"}
RawAtoms == {",", " ", "codespaces", "CodeSpaces", "repo"}

ScopeStrings == SeqsUpTo(ScopeAtoms, MaxScope)

RequiredLists ==
    {<<>>} \cup {<<sc>> : sc \in ScopeStrings}
           \cup {<<<<"codespaces">>, sc>> : sc \in SeqsUpTo(ScopeAtoms, 1)}

GateOutcomes ==
    {Outcome(e, 0, "", <<>>, <<>>) : e \in {"do"}}
    \cup {Outcome("read", 200, "application/json", <<"codespaces">>, <<>>)}
    \cup {Outcome("none", 200, "application/json", raw, <<"{}">>) :
            raw \in SeqsUpTo(RawAtoms, MaxRaw)}
    \cup {Outcome("none", st, "application/json", raw, <<"{}">>) :
            st \in {399, 400, 500}, raw \in {<<>>, <<"codespaces">>}}

InitScopes ==
    /\ pc = [i \in Reqs |-> "idle"]
    /\ req = [i \in Reqs |-> NoReq]
    /\ disp = [i \in Reqs |-> NoDispatch]
    /\ token = [i \in Reqs |-> <<>>]
    /\ up = [i \in Reqs |-> <<>>]
    /\ scopeRes = [i \in Reqs |-> NoOutcome]
    /\ actRes = [i \in Reqs |-> NoOutcome]
    /\ resp = [i \in Reqs |-> NoResp]
    /\ ctx = [i \in Reqs |-> "live"]
    /\ tool = NoTool
    /\ \E rq \in RequiredLists :
          gate = Gate("start", <<"X">>, rq, <<>>, NoOutcome, NoScopes, NoResult)

\* ensureScopes is entered and GetTokenScopes sends its request
EnsureScopesCall ==
    /\ gate.pc = "start"
    /\ gate' = [gate EXCEPT !.pc = "fetch",
                            !.out = <<GetTokenScopesRequest(gate.token)>>]
    /\ UNCHANGED <<pc, req, disp, token, up, scopeRes, actRes, resp, ctx, tool>>

\* the upstream answers; GetTokenScopes and then ensureScopes return
EnsureScopesReturn(o) ==
    /\ gate.pc = "fetch"
    /\ gate' = [gate EXCEPT !.pc = "returned", !.outcome = o,
                            !.got = GetTokenScopes(o),
                            !.result = ensureScopes(o, gate.required)]
    /\ UNCHANGED <<pc, req, disp, token, up, scopeRes, actRes, resp, ctx, tool>>

NextScopes ==
    \/ EnsureScopesCall
    \/ \E o \in GateOutcomes : EnsureScopesReturn(o)

SpecScopes == InitScopes /\ [][NextScopes]_vars

\* The inbound requests are served concurrently, one goroutine each.
ConcInbounds ==
    {Inbound("GET", CollectionPath, <<"X">>, <<>>, FALSE, <<>>),
     Inbound("POST", CollectionPrefix \o <<"n", "/", "start">>,
             <<"Bearer", " ", "Z">>, <<>>, FALSE, <<>>),
     Inbound("GET", CollectionPath, <<>>, <<>>, FALSE, <<>>)}

ConcScopeOutcomes ==
    {Outcome("do", 0, "", <<>>, <<>>),
     Outcome("canceled", 0, "", <<>>, <<>>),
     Outcome("none", 401, "application/json", <<>>, <<"{}">>),
     Outcome("none", 200, "application/json", <<"repo">>, <<"{}">>),
     Outcome("none", 200, "application/json", <<"codespaces">>, <<"{}">>)}

ConcActionOutcomes ==
    {Outcome("do", 0, "", <<>>, <<>>),
     Outcome("canceled", 0, "", <<>>, <<>>),
     Outcome("read", 200, "application/json", <<>>, <<>>),
     Outcome("none", 200, "application/json", <<>>, <<"{}">>),
     Outcome("none", 404, "", <<>>, <<"{\"message\":\"not found\"}">>)}

NextConc ==
    \E i \in Reqs :
        \/ \E r \in ConcInbounds : Receive(i, r)
        \/ Serve(i)
        \/ Cancel(i)
        \/ \E o \in ConcScopeOutcomes : ScopeReply(i, o)
        \/ \E o \in ConcActionOutcomes : ActionReply(i, o)

SpecConc == Init /\ [][NextConc]_vars

\* ------------------------------------------------------- tool handlers
\* An argument of a tool call is absent, the empty string, a non-empty string,
\* or a value that is not a string.
ArgValues == {"absent", "empty", "text", "number"}

ToolNames == {"list_codespaces", "create_codespace", "stop_codespace", "delete_codespace"}

\* RequiredParam[string]: an error unless the argument is a non-empty string
RequiredParam(args, p) == [err |-> args[p] # "text", val |-> args[p]]

\* OptionalParam[string], its error dropped: the zero value unless a string
OptionalParam(args, p) == IF args[p] = "text" THEN "text" ELSE "empty"

RequiredOf(n) ==
    CASE n = "create_codespace" -> <<"owner", "repo">>
      [] n = "stop_codespace" -> <<"name">>
      [] n = "delete_codespace" -> <<"name">>
      [] OTHER -> <<>>

ApiCall(n, args) ==
    CASE n = "list_codespaces" -> [op |-> "Codespaces.List", args |-> <<>>]
      [] n = "create_codespace" ->
            [op |-> "Codespaces.CreateInRepo",
             args |-> <<args.owner, args.repo, OptionalParam(args, "branch"),
                        OptionalParam(args, "machine")>>]
      [] n = "stop_codespace" -> [op |-> "Codespaces.Stop", args |-> <<args.name>>]
      [] n = "delete_codespace" -> [op |-> "Codespaces.Delete", args |-> <<args.name>>]

\* toolHandler obtaining the client before it validates the parameters
toolHandlerClientFirst(n, args, clientOk) ==
    LET required == RequiredOf(n)
        bad == {k \in DOMAIN required : RequiredParam(args, required[k]).err}
    IN  IF ~clientOk THEN Tool("done", n, args, 1, <<>>, "go_error")
        ELSE IF bad # {} THEN Tool("done", n, args, 1, <<>>, "tool_error")
        ELSE Tool("api_wait", n, args, 1, <<ApiCall(n, args)>>, "none")

\* a tool handler from its entry to its API call: the required parameters in
\* order, then getClient, then the call
toolHandler(n, args, clientOk) ==
    LET required == RequiredOf(n)
        bad == {k \in DOMAIN required : RequiredParam(args, required[k]).err}
    IN  IF bad # {} THEN Tool("done", n, args, 0, <<>>, "tool_error")
        ELSE IF ~clientOk THEN Tool("done", n, args, 1, <<>>, "go_error")
        ELSE Tool("api_wait", n, args, 1, <<ApiCall(n, args)>>, "none")

ArgRecords ==
    [owner : ArgValues, repo : ArgValues, branch : {"absent", "text"},
     machine : {"absent", "text"}, name : ArgValues]

InitTool ==
    /\ pc = [i \in Reqs |-> "idle"]
    /\ req = [i \in Reqs |-> NoReq]
    /\ disp = [i \in Reqs |-> NoDispatch]
    /\ token = [i \in Reqs |-> <<>>]
    /\ up = [i \in Reqs |-> <<>>]
    /\ scopeRes = [i \in Reqs |-> NoOutcome]
    /\ actRes = [i \in Reqs |-> NoOutcome]
    /\ resp = [i \in Reqs |-> NoResp]
    /\ ctx = [i \in Reqs |-> "live"]
    /\ gate = NoGate
    /\ \E n \in ToolNames, a \in ArgRecords : tool = Tool("start", n, a, 0, <<>>, "none")

\* the tool handler is called and runs up to its API call
ToolCall(clientOk) ==
    /\ tool.pc = "start"
    /\ tool' = toolHandler(tool.name, tool.args, clientOk)
    /\ UNCHANGED <<pc, req, disp, token, up, scopeRes, actRes, resp, ctx, gate>>

\* the API call returns and the handler builds its result
ToolApiReturn(failed) ==
    /\ tool.pc = "api_wait"
    /\ tool' = [tool EXCEPT !.pc = "done",
                            !.result = IF failed THEN "tool_error" ELSE "text"]
    /\ UNCHANGED <<pc, req, disp, token, up, scopeRes, actRes, resp, ctx, gate>>

NextTool ==
    \/ \E clientOk \in BOOLEAN : ToolCall(clientOk)
    \/ \E failed \in BOOLEAN : ToolApiReturn(failed)

SpecTool == InitTool /\ [][NextTool]_vars

\* ------------------------------------------------------------- claims
Served(i) == pc[i] \in {"scope_wait", "action_wait", "done", "panic"}

UpOps(i) == {up[i][k].op : k \in DOMAIN up[i]}

HasSpace(s) == \E k \in DOMAIN s : IsSpace(s[k])

\* the granted scopes of a scope-fetch answer include "codespaces"
GrantsCodespaces(o) ==
    \E k \in DOMAIN Split(o.scopes) :
        ToLower(TrimSpace(Split(o.scopes)[k])) = <<"codespaces">>

ScopeFetchOk(o) == o.err = "none" /\ o.status < 400

ScopeFetchFailed(o) == o.err \in {"do", "canceled", "read"} \/ (o.err = "none" /\ o.status >= 400)

\* C1: a dispatched request from which extractToken yields the empty token is
\* answered with 401 and no upstream request at all is issued for it.
C1_NoTokenUnauthorizedNoUpstream ==
    \A i \in Reqs :
        (/\ Served(i)
         /\ disp[i].action \in Actions
         /\ extractToken(req[i].authorization, req[i].xGithubToken) = TokenOf(<<>>))
        => /\ pc[i] = "done"
           /\ resp[i] = HttpError("missing Authorization token", StatusUnauthorized)
           /\ up[i] = <<>>

C1_Witness ==
    \E i \in Reqs :
        /\ pc[i] = "done"
        /\ disp[i].action = "stop"
        /\ req[i].authorization = <<>> /\ req[i].xGithubToken = <<>>
        /\ resp[i].status = StatusUnauthorized

\* C2: the action request of an inbound request is issued only as the second
\* upstream request, after that request's scope fetch answered without error,
\* with a status below 400 and granted scopes that include codespaces.
C2_ActionOnlyAfterScopeCheck ==
    \A i \in Reqs : \A k \in DOMAIN up[i] :
        up[i][k].op \in ActionOps
        => /\ k = 2
           /\ up[i][1].op = "GetTokenScopes"
           /\ up[i][1].auth = up[i][2].auth
           /\ ScopeFetchOk(scopeRes[i])
           /\ GrantsCodespaces(scopeRes[i])
           /\ up[i][k] = ActionRequest(disp[i].action, token[i], disp[i].name,
                                       IF up[i][k].body = <<>> THEN JsonNil ELSE JsonObject)

C2_Witness ==
    \E i \in Reqs :
        /\ pc[i] = "action_wait"
        /\ disp[i].action = "delete"
        /\ Len(up[i]) = 2 /\ up[i][2].op = "DeleteCodespace"
        /\ scopeRes[i].scopes = <<"repo", ",", " ", "CodeSpaces", " ">>

\* C3: a scope fetch that succeeds without granting codespaces is answered with
\* 403 and a message naming codespaces, a status other than 500 and 502, and no
\* action request is issued.
C3_InsufficientScopeForbidden ==
    \A i \in Reqs :
        (ScopeFetchOk(scopeRes[i]) /\ ~GrantsCodespaces(scopeRes[i]))
        => /\ pc[i] = "done"
           /\ resp[i] = HttpError("insufficient token scopes: requires codespaces",
                                  StatusForbidden)
           /\ resp[i].status \notin {StatusInternalServerError, StatusBadGateway}
           /\ UpOps(i) = {"GetTokenScopes"}

C3_Witness ==
    \E i \in Reqs :
        /\ ScopeFetchOk(scopeRes[i])
        /\ scopeRes[i].scopes = <<>>
        /\ disp[i].action = "list"
        /\ resp[i].status = StatusForbidden

\* C4: a failed scope fetch (transport error, or a status of 400 or more) is
\* answered with 500 and the generic message, never with 403, and no action
\* request is issued.
C4_ScopeFetchFailureInternalError ==
    \A i \in Reqs :
        ScopeFetchFailed(scopeRes[i])
        => /\ pc[i] = "done"
           /\ resp[i] = HttpError("failed to validate token scopes",
                                  StatusInternalServerError)
           /\ resp[i].status # StatusForbidden
           /\ UpOps(i) = {"GetTokenScopes"}

C4_Witness ==
    \E i \in Reqs :
        /\ scopeRes[i].err = "none" /\ scopeRes[i].status = 401
        /\ scopeRes[i].scopes = <<"codespaces">>
        /\ disp[i].action = "get"
        /\ resp[i].status = StatusInternalServerError

\* C5: a transport error of the action call (Do failed, or the body read
\* failed) is answered with 502 and the generic message; status, content type
\* and body of the upstream are not passed on.
C5_ActionTransportErrorBadGateway ==
    \A i \in Reqs :
        actRes[i].err \in {"do", "canceled", "read"}
        => /\ pc[i] = "done"
           /\ resp[i] = HttpError("failed to call GitHub", StatusBadGateway)

C5_Witness ==
    \E i \in Reqs :
        /\ actRes[i].err = "read" /\ actRes[i].status = 200
        /\ disp[i].action = "start"
        /\ resp[i].status = StatusBadGateway
        /\ resp[i].ctype # actRes[i].ctype

Rest(p) == SubSeq(p, Len(CollectionPrefix) + 1, Len(p))

EndsWith(s, a, b) == Len(s) >= 2 /\ s[Len(s) - 1] = a /\ s[Len(s)] = b

InterfaceAction(m, p) ==
    LET rest == Rest(p)
        stem == SubSeq(rest, 1, Len(rest) - 2)
    IN  IF p = CollectionPath
        THEN IF m = "GET" THEN [action |-> "list", name |-> <<>>]
             ELSE IF m = "POST" THEN [action |-> "create", name |-> <<>>]
             ELSE NoDispatch
        ELSE IF m = "POST" /\ EndsWith(rest, "/", "start") /\ stem # <<>>
        THEN [action |-> "start", name |-> stem]
        ELSE IF m = "POST" /\ EndsWith(rest, "/", "stop") /\ stem # <<>>
        THEN [action |-> "stop", name |-> stem]
        ELSE IF m = "GET" /\ rest # <<>> THEN [action |-> "get", name |-> rest]
        ELSE IF m = "DELETE" /\ rest # <<>> THEN [action |-> "delete", name |-> rest]
        ELSE NoDispatch

\* C7: a valid method and path resolve to exactly their action and name; every
\* other method and path under /api/codespaces is answered with 405 or 400 and
\* no handler is invoked.
C7_RouterResolvesOrRejects ==
    \A i \in Reqs :
        Served(i)
        => LET e == InterfaceAction(req[i].method, req[i].path) IN
           IF e.action # "none"
           THEN disp[i] = e
           ELSE /\ disp[i] = NoDispatch
                /\ resp[i].status \in {StatusMethodNotAllowed, StatusBadRequest}

\* C8: for a non-empty name n, POST n/start invokes start with exactly n, POST
\* n/stop invokes stop with exactly n, and POST n without such a suffix is
\* answered with 405.
C8_StartStopSuffixStripped ==
    \A i \in Reqs :
        (Served(i) /\ req[i].method = "POST" /\ HasPrefix(req[i].path, CollectionPrefix))
        => LET rest == Rest(req[i].path)
               stem == SubSeq(rest, 1, Len(rest) - 2)
           IN  /\ (EndsWith(rest, "/", "start") /\ stem # <<>>)
                  => disp[i] = [action |-> "start", name |-> stem]
               /\ (EndsWith(rest, "/", "stop") /\ stem # <<>>)
                  => disp[i] = [action |-> "stop", name |-> stem]
               /\ (rest # <<>> /\ ~EndsWith(rest, "/", "start") /\ ~EndsWith(rest, "/", "stop"))
                  => /\ disp[i] = NoDispatch
                     /\ resp[i] = HttpError("method not allowed", StatusMethodNotAllowed)

C8_Witness ==
    \E i \in Reqs :
        /\ Served(i)
        /\ req[i].method = "POST"
        /\ Rest(req[i].path) = <<"n", "/", "stop", "/", "start">>
        /\ disp[i] = [action |-> "start", name |-> <<"n", "/", "stop">>]

\* the inbound request is a create call whose body is not parseable JSON
UnparsableCreate(r) ==
    /\ r.method = "POST" /\ r.path = CollectionPath
    /\ ~r.bodyErr /\ Len(r.body) > 0 /\ Unmarshal(r.body).err

\* C9: a create call whose body is not parseable JSON never reaches the
\* upstream, neither for the scope fetch nor for the create, and a call that
\* carries a token (one without is answered 401, see C1) is answered with 400.
C9_BadJsonNeverReachesUpstream ==
    \A i \in Reqs :
        (Served(i) /\ UnparsableCreate(req[i]))
        => /\ up[i] = <<>>
           /\ (pc[i] = "done" /\ token[i] # <<>>) => resp[i].status = StatusBadRequest

\* C10: a bare value yields itself, a two-part value yields its second part,
\* an empty header yields the empty token, and X-Github-Token has no influence
\* unless Authorization is empty.
C10_TokenExtraction ==
    \A i \in Reqs :
        Served(i)
        => LET a == req[i].authorization
               x == req[i].xGithubToken
               h == IF a = <<>> THEN x ELSE a
               alone == handleEntry([req[i] EXCEPT !.xGithubToken = <<>>])
           IN  /\ (h # <<>> /\ ~HasSpace(h))
                  => (pc[i] = "scope_wait" /\ token[i] = h)
               /\ \A j \in 1..Len(h) : \A k \in j..Len(h) :
                     (/\ j > 1 /\ k < Len(h)
                      /\ ~HasSpace(SubSeq(h, 1, j - 1))
                      /\ \A q \in j..k : IsSpace(h[q])
                      /\ ~HasSpace(SubSeq(h, k + 1, Len(h))))
                     => (pc[i] = "scope_wait" /\ token[i] = SubSeq(h, k + 1, Len(h)))
               /\ h = <<>>
                  => (token[i] = <<>> /\ resp[i].status = StatusUnauthorized)
               /\ a # <<>> => (pc[i] = alone.pc /\ token[i] = alone.token)

C10_Witness ==
    \E i \in Reqs :
        /\ Served(i)
        /\ req[i].authorization = <<"Bearer", " ", "X">>
        /\ req[i].xGithubToken = <<"Y">>
        /\ token[i] = <<"X">>

\* the scope ToLower(TrimSpace(sc)) is among the granted ones, compared after
\* trimming and lower-casing
Granted(got, sc) ==
    \E k \in DOMAIN got.scopes : ToLower(TrimSpace(got.scopes[k])) = sc

InsufficientScope(g) ==
    /\ g.result.kind = "insufficient"
    /\ g.result.required = g.required
    /\ g.result.granted = g.got.scopes

\* C11 as claimed: with the scopes fetched, ensureScopes succeeds exactly when
\* every required scope, trimmed and lower-cased, equals a granted scope,
\* trimmed and lower-cased, and fails with InsufficientScope otherwise.
C11_TrimmedOnBothSides ==
    (gate.pc = "returned" /\ ~gate.got.err)
    => /\ gate.result.kind = "ok"
          <=> \A k \in DOMAIN gate.required :
                 Granted(gate.got, ToLower(TrimSpace(gate.required[k])))
       /\ gate.result.kind # "ok" => InsufficientScope(gate)

\* C11 amended: the required scopes are lower-cased but not trimmed; the granted
\* scopes are trimmed and lower-cased.
C11_RequiredLowerCasedOnly ==
    (gate.pc = "returned" /\ ~gate.got.err)
    => /\ gate.result.kind = "ok"
          <=> \A k \in DOMAIN gate.required :
                 Granted(gate.got, ToLower(gate.required[k]))
       /\ gate.result.kind # "ok" => InsufficientScope(gate)

C11_Witness ==
    /\ gate.pc = "returned"
    /\ gate.required = <<<<"codespaces">>>>
    /\ gate.outcome.scopes = <<" ", "CodeSpaces", " ">>
    /\ gate.result.kind = "ok"

\* C12: start and stop are only ever invoked with a non-empty name.
C12_StartStopNeedName ==
    \A i \in Reqs :
        (Served(i) /\ disp[i].action \in {"start", "stop"}) => disp[i].name # <<>>

\* C13: get and delete are only ever invoked with a name that does not end in
\* /start or /stop.
C13_GetDeleteBareName ==
    \A i \in Reqs :
        (Served(i) /\ disp[i].action \in {"get", "delete"})
        => /\ ~EndsWith(disp[i].name, "/", "start")
           /\ ~EndsWith(disp[i].name, "/", "stop")

\* The comma-separated pieces of a header value, by the positions of its
\* commas, each without its leading and trailing spaces.
Cuts(raw) == {0, Len(raw) + 1} \cup {p \in DOMAIN raw : raw[p] = ","}

NthCut(raw, k) == CHOOSE c \in Cuts(raw) : Cardinality({e \in Cuts(raw) : e < c}) = k - 1

Stripped(seg) ==
    LET solid == {p \in DOMAIN seg : seg[p] # " "} IN
    IF solid = {} THEN <<>>
    ELSE SubSeq(seg, CHOOSE a \in solid : \A b \in solid : a <= b,
                     CHOOSE a \in solid : \A b \in solid : a >= b)

Pieces(raw) ==
    [k \in 1..(Cardinality(Cuts(raw)) - 1) |->
        Stripped(SubSeq(raw, NthCut(raw, k) + 1, NthCut(raw, k + 1) - 1))]

\* C19: GetTokenScopes sends one GET to the API root; it fails on every
\* transport error and every status of 400 or more; otherwise it returns the
\* comma-separated pieces of the scopes header, trimmed, and the empty non-nil
\* slice when the header is absent.
C19_GetTokenScopes ==
    /\ gate.pc \in {"fetch", "returned"}
       => /\ Len(gate.out) = 1
          /\ gate.out[1].method = "GET" /\ gate.out[1].path = <<"/">>
    /\ gate.pc = "returned"
       => LET o == gate.outcome IN
          /\ gate.got.err <=> (o.err # "none" \/ o.status >= 400)
          /\ ~gate.got.err
             => /\ ~gate.got.isNil
                /\ gate.got.scopes = IF o.scopes = <<>> THEN <<>> ELSE Pieces(o.scopes)

C19_Witness ==
    /\ gate.pc = "returned"
    /\ gate.outcome.status = 200
    /\ gate.outcome.scopes = <<" ", ",", "repo">>
    /\ gate.got.scopes = <<<<>>, <<"repo">>>>

\* C20: no retry: for one inbound request at most one scope fetch and at most
\* one action request are issued, the scope fetch first, and a failed call ends
\* the handling.
C20_NoRetry ==
    \A i \in Reqs :
        /\ Len(up[i]) <= 2
        /\ Cardinality({k \in DOMAIN up[i] : up[i][k].op = "GetTokenScopes"}) <= 1
        /\ Cardinality({k \in DOMAIN up[i] : up[i][k].op \in ActionOps}) <= 1
        /\ Len(up[i]) >= 1 => up[i][1].op = "GetTokenScopes"
        /\ ScopeFetchFailed(scopeRes[i]) => (pc[i] = "done" /\ Len(up[i]) = 1)
        /\ actRes[i].err \in {"do", "canceled", "read"} => (pc[i] = "done" /\ Len(up[i]) = 2)

C20_Witness ==
    \E i \in Reqs :
        /\ pc[i] = "done"
        /\ scopeRes[i].err = "do"
        /\ Len(up[i]) = 1
        /\ resp[i].status = StatusInternalServerError

\* the response of a request whose blocking call was ended by an error
TransportErrorResponse(rs) ==
    \/ rs = HttpError("failed to validate token scopes", StatusInternalServerError)
    \/ rs = HttpError("failed to call GitHub", StatusBadGateway)

\* C14: a request whose context is canceled during its scope check or its
\* action call ends with the response of a transport error, never a
\* pass-through; and every request for which a handler was invoked eventually
\* has a response written.
C14_CanceledAbortsAndAnswers ==
    /\ [](\A i \in Reqs :
            (ctx[i] = "canceled" /\ pc[i] \in {"done", "panic"})
            => TransportErrorResponse(resp[i]))
    /\ \A i \in Reqs : (disp[i].action \in Actions) ~> resp[i].written

\* why a terminated request got its status
StatusJustified(i) ==
    LET st == resp[i].status
        rt == RegisterCodespacesRoutes(req[i].method, req[i].path)
    IN  \/ actRes[i].err = "none" /\ st = actRes[i].status
        \/ /\ st = StatusUnauthorized
           /\ extractToken(req[i].authorization, req[i].xGithubToken) = TokenOf(<<>>)
        \/ /\ st = StatusForbidden
           /\ ScopeFetchOk(scopeRes[i]) /\ ~GrantsCodespaces(scopeRes[i])
        \/ /\ st = StatusBadRequest
           /\ \/ Rest(req[i].path) = <<>> /\ req[i].path # CollectionPath
              \/ disp[i].action = "create" /\ (req[i].bodyErr \/ UnparsableCreate(req[i]))
        \/ st = StatusMethodNotAllowed /\ rt.kind = "error"
        \/ st = StatusInternalServerError /\ ScopeFetchFailed(scopeRes[i])
        \/ st = StatusBadGateway /\ actRes[i].err \in {"do", "canceled", "read"}

\* C16: every inbound request whose handling has ended has a response, with a
\* status of the list and for the reason the list gives.
C16_OneClassifiedResponse ==
    \A i \in Reqs :
        pc[i] \in {"done", "panic"} => (resp[i].written /\ StatusJustified(i))

\* everything the model holds for request i
Own(i) == <<pc[i], req[i], disp[i], token[i], up[i], scopeRes[i], actRes[i], resp[i], ctx[i]>>

\* what the handling of request i has come to, from its own request and the
\* upstream's answers to its own calls
OwnOutcome(i) ==
    LET rt == RegisterCodespacesRoutes(req[i].method, req[i].path)
        e == handleEntry(req[i])
        sc == handleScopes(rt.action, rt.name, req[i], e.token, scopeRes[i])
    IN  IF rt.kind = "error"
        THEN <<"done", HttpError(rt.msg, rt.status), <<>>, <<>>>>
        ELSE IF scopeRes[i].err = "pending" THEN <<e.pc, e.resp, e.token, e.out>>
        ELSE IF actRes[i].err = "pending" THEN <<sc.pc, sc.resp, e.token, e.out \o sc.out>>
        ELSE <<"done", handleAction(actRes[i]), e.token, e.out \o sc.out>>

\* C15: under every interleaving a request's state follows from its own
\* request and the answers to its own calls, a step of one request leaves the
\* others as they are, and a request with an action request has made its own
\* scope fetch with its own token.
C15_RequestsIndependent ==
    /\ [](\A i \in Reqs :
            /\ Served(i) => <<pc[i], resp[i], token[i], up[i]>> = OwnOutcome(i)
            /\ (\E k \in DOMAIN up[i] : up[i][k].op \in ActionOps)
               => /\ up[i][1] = GetTokenScopesRequest(token[i])
                  /\ scopeRes[i].err = "none"
                  /\ token[i] = extractToken(req[i].authorization,
                                             req[i].xGithubToken).token)
    /\ [][\A i, j \in Reqs : (i # j /\ Own(i)' # Own(i)) => Own(j)' = Own(j)]_vars

C15_Witness ==
    /\ pc[1] = "action_wait" /\ pc[2] = "scope_wait"
    /\ token[1] = <<"X">> /\ token[2] = <<"Z">>
    /\ scopeRes[1].scopes = <<"codespaces">>

\* C17: two handlings of the same request that differ only in which error the
\* scope fetch returned (or in its failure status), or only in which error the
\* action call returned, send the caller the same status and body.
C17_ErrorDetailNotVisible ==
    \A i, j \in Reqs :
        (/\ req[i] = req[j]
         /\ pc[i] = "done" /\ pc[j] = "done"
         /\ \/ ScopeFetchFailed(scopeRes[i]) /\ ScopeFetchFailed(scopeRes[j])
            \/ /\ scopeRes[i] = scopeRes[j]
               /\ actRes[i].err \in {"do", "canceled", "read"}
               /\ actRes[j].err \in {"do", "canceled", "read"})
        => (resp[i].status = resp[j].status /\ resp[i].body = resp[j].body)

C17_Witness ==
    /\ req[1] = req[2]
    /\ pc[1] = "done" /\ pc[2] = "done"
    /\ scopeRes[1] = scopeRes[2]
    /\ actRes[1].err = "do" /\ actRes[2].err = "read"
    /\ resp[1] = resp[2]

\* C18: create_codespace (owner, repo), stop_codespace (name) and
\* delete_codespace (name) called without one of their required parameters
\* return a tool error, obtain no client and make no API call; the client is
\* obtained only for a call that has all of them.
C18_ValidationBeforeClient ==
    LET required == RequiredOf(tool.name)
        lacking == {k \in DOMAIN required : tool.args[required[k]] = "absent"}
    IN  (tool.pc \in {"api_wait", "done"} /\ tool.name # "list_codespaces")
        => /\ lacking # {}
              => (tool.pc = "done" /\ tool.result = "tool_error"
                  /\ tool.clients = 0 /\ tool.api = <<>>)
           /\ (tool.clients > 0 \/ tool.api # <<>>)
              => \A k \in DOMAIN required : tool.args[required[k]] = "text"

C18_Witness ==
    /\ tool.pc = "done"
    /\ tool.name = "create_codespace"
    /\ tool.args.owner = "text" /\ tool.args.repo = "absent"
    /\ tool.result = "tool_error"
    /\ tool.clients = 0

\* C21: the token of an inbound request is the one extractToken yields from
\* its headers; it is not empty once an upstream request has been issued, and
\* every upstream request of the inbound request, the scope fetch and the
\* action alike, carries "token " followed by exactly that token.
C21_TokenBound ==
    \A i \in Reqs :
        up[i] # <<>>
        => /\ token[i] # <<>>
           /\ token[i] = extractToken(req[i].authorization, req[i].xGithubToken).token
           /\ \A k \in DOMAIN up[i] : up[i][k].auth = <<"token", " ">> \o token[i]
           /\ Len(up[i]) = 2
              => (/\ up[i][1].op = "GetTokenScopes"
                  /\ up[i][2].op \in ActionOps
                  /\ up[i][2].auth = up[i][1].auth)

C21_Witness ==
    \E i \in Reqs :
        /\ pc[i] = "done"
        /\ req[i].authorization = <<"Bearer", " ", "X">>
        /\ req[i].xGithubToken = <<"Y">>
        /\ Len(up[i]) = 2
        /\ up[i][1].auth = <<"token", " ", "X">>
        /\ up[i][2].op = "GetCodespace"
        /\ up[i][2].auth = <<"token", " ", "X">>

\* the status with which the router answers a method and path by itself, 0 when
\* it hands the request to a handler: 400 for the empty rest below the
\* collection, 405 for a method the path has no handler for
RouterStatus(m, p) ==
    LET rest == Rest(p) IN
    IF p = CollectionPath
    THEN IF m \in {"GET", "POST"} THEN 0 ELSE StatusMethodNotAllowed
    ELSE IF rest = <<>> THEN StatusBadRequest
    ELSE IF m \in {"GET", "DELETE"} THEN 0
    ELSE IF m = "POST" /\ (EndsWith(rest, "/", "start") \/ EndsWith(rest, "/", "stop")) THEN 0
    ELSE StatusMethodNotAllowed

\* C22: a request the router rejects is answered with the router's status, 405
\* or 400, whatever its Authorization and X-Github-Token headers are; no token
\* is extracted, no handler is invoked and no upstream request is issued.
C22_RejectionBeforeAuthentication ==
    \A i \in Reqs :
        (Served(i) /\ RouterStatus(req[i].method, req[i].path) # 0)
        => /\ pc[i] = "done"
           /\ resp[i].written
           /\ resp[i].status = RouterStatus(req[i].method, req[i].path)
           /\ disp[i] = NoDispatch
           /\ token[i] = <<>>
           /\ up[i] = <<>>
           /\ scopeRes[i] = NoOutcome /\ actRes[i] = NoOutcome

C22_Witness ==
    \E i \in Reqs :
        /\ pc[i] = "done"
        /\ req[i].method = "PUT"
        /\ req[i].path = CollectionPrefix \o <<"n", "/", "start">>
        /\ req[i].authorization = <<"Bearer", " ", "X">>
        /\ resp[i] = HttpError("method not allowed", StatusMethodNotAllowed)
        /\ token[i] = <<>>
        /\ up[i] = <<>>

\* C23: for every value of the Authorization and X-Github-Token headers, the
\* whitespace-only ones and the ones of three or more fields included,
\* extractToken returns a token, and a handler that was invoked either answers
\* 401 or issues its scope fetch with the token returned.
C23_ExtractTokenTotal ==
    \A i \in Reqs :
        (Served(i) /\ disp[i].action \in Actions)
        => /\ ~extractToken(req[i].authorization, req[i].xGithubToken).panic
           /\ pc[i] # "panic"
           /\ \/ pc[i] = "done" /\ resp[i].status = StatusUnauthorized /\ up[i] = <<>>
              \/ /\ pc[i] = "scope_wait"
                 /\ token[i] # <<>>
                 /\ up[i] = <<GetTokenScopesRequest(token[i])>>

====
